---- MODULE Spec2Model ----
(***************************************************************************)
(* Model of FreePointFinder (src/FreePointFinder.py): construction from a  *)
(* map descriptor and a decoded image, the meter <-> pixel transforms, the *)
(* square-footprint free-space test and the radial search for the closest  *)
(* free point.                                                             *)
(*                                                                         *)
(* World lengths (meters in the source) are integers in a fixed unit; the  *)
(* resolution is a whole number of units per pixel, so every quotient the  *)
(* code forms is an exact rational n/d and the code's round(), int(),      *)
(* math.ceil() and math.floor() are computed on it exactly.  Angles are    *)
(* whole multiples of 45 degrees, whose cosines and sines are tabulated.   *)
(* Python 3 semantics: round() is round-half-to-even and returns an int.   *)
(***************************************************************************)
EXTENDS Integers, Sequences, FiniteSets

VARIABLES
    status,                 \* "new" | "ready" | "raised" : outcome of __init__
    error,                  \* "none" or the exception __init__ raised
    args,                   \* arguments of __init__ and contents of the map YAML / image
    map_image,              \* self._map_image : rows of occupancy values
    free_thresh,            \* self._free_thresh
    resolution_mppx,        \* self._resolution_mppx
    origin_x_px,            \* self._origin_x_px
    origin_y_px,            \* self._origin_y_px
    robot_radius_px,        \* self._robot_radius_px
    robot_area_shape,       \* self._robot_area_shape
    max_distance_px,        \* self._max_distance_px
    distance_increment_px,  \* self._distance_increment_px
    angle_increment_deg,    \* self._angle_increment_rad, kept in degrees
    op,                     \* the query method that ran last, "none" before any
    q,                      \* its argument point (pixels or world units)
    q_px,                   \* the pixel point the query worked on
    found_px,               \* what _closest_free_point_px returned
    ret_free,               \* return value of is_free / _is_free_px
    ret_point               \* return value of closest_free_point / _closest_free_point_px

vars == <<status, error, args, map_image, free_thresh, resolution_mppx, origin_x_px,
          origin_y_px, robot_radius_px, robot_area_shape, max_distance_px,
          distance_increment_px, angle_increment_deg, op, q, q_px, found_px,
          ret_free, ret_point>>

engine == <<map_image, free_thresh, resolution_mppx, origin_x_px, origin_y_px,
            robot_radius_px, robot_area_shape, max_distance_px,
            distance_increment_px, angle_increment_deg>>

query == <<op, q, q_px, found_px, ret_free, ret_point>>

-----------------------------------------------------------------------------
(* Bounds of the model *)

ImgW == 4            \* width of the decoded image, pixels
ImgH == 5            \* height of the decoded image, pixels
MaxRadiusM == 2      \* largest robot_radius_m, world units
MaxDistanceM == 2    \* largest max_distance_m of the grid-level checks, world units
MaxCoordM == 6       \* world queries range over 0..MaxCoordM units on each axis

-----------------------------------------------------------------------------
(* Python values *)

\* None; an attribute that was never assigned also reads as None here.
None == -999

\* The pair (None, None).
NotFound == <<None, None>>

-----------------------------------------------------------------------------
(* Exact arithmetic on the rational n/d, d > 0 *)

\* math.floor(n/d)
FloorDiv(n, d) == n \div d

\* math.ceil(n/d)
CeilDiv(n, d) == -((-n) \div d)

TruncDivAsFloor(n, d) == n \div d

\* int(n/d): truncation toward zero
TruncDiv(n, d) == IF n >= 0 THEN n \div d ELSE -((-n) \div d)

\* round(n/d) of Python 3: nearest integer, ties to the even one
Round(n, d) ==
    LET f == n \div d
        rem == n - f * d
    IN  IF 2 * rem < d THEN f
        ELSE IF 2 * rem > d THEN f + 1
        ELSE IF f % 2 = 0 THEN f ELSE f + 1

\* max(a, b)
Max(a, b) == IF a >= b THEN a ELSE b

-----------------------------------------------------------------------------
(* math.cos / math.sin at k * 45 degrees, scaled by TrigScale *)

TrigScale == 100000

Cos(deg) ==
    LET d == deg % 360
    IN  CASE d = 0   -> 100000
          [] d = 45  -> 70711
          [] d = 90  -> 0
          [] d = 135 -> -70711
          [] d = 180 -> -100000
          [] d = 225 -> -70711
          [] d = 270 -> 0
          [] d = 315 -> 70711

Sin(deg) == Cos(deg + 270)

-----------------------------------------------------------------------------
(* numpy basic slicing *)

\* a[start:stop] on an axis of length n selects indices lo..hi-1 (0-based):
\* a negative bound counts from the end, then both are clipped to 0..n.
SliceBound(n, i) == IF i < 0 THEN Max(n + i, 0) ELSE IF i > n THEN n ELSE i

Slice(n, start, stop) == SliceBound(n, start) .. (SliceBound(n, stop) - 1)

\* len(a[start:stop])
SliceLen(n, start, stop) == Max(SliceBound(n, stop) - SliceBound(n, start), 0)

Height(img) == Len(img)

Width(img) == IF Len(img) = 0 THEN 0 ELSE Len(img[1])

\* img[y-r : y+r, x-r : x+r]
AreaRows(img, r, y) == Slice(Height(img), y - r, y + r)

AreaCols(img, r, x) == Slice(Width(img), x - r, x + r)

\* area.shape
AreaShape(img, r, x, y) ==
    << SliceLen(Height(img), y - r, y + r), SliceLen(Width(img), x - r, x + r) >>

AreaValues(img, r, x, y) ==
    {img[i + 1][j + 1] : i \in AreaRows(img, r, y), j \in AreaCols(img, r, x)}

AllBelowOrEqual(values, thresh) == \A v \in values : v <= thresh

AnyBelow(values, thresh) == \E v \in values : v < thresh

\* (area < thresh).all()
AllBelow(values, thresh) == \A v \in values : v < thresh

\* _is_free_px on an engine with buffer img, radius r and footprint shape
IsFreeArea(img, r, shape, thresh, x, y) ==
    IF AreaShape(img, r, x, y) # shape
    THEN FALSE
    ELSE AllBelow(AreaValues(img, r, x, y), thresh)

_is_free_px(x, y) ==
    IsFreeArea(map_image, robot_radius_px, robot_area_shape, free_thresh, x, y)

-----------------------------------------------------------------------------
(* Coordinate transforms *)

\* _m_to_px
_m_to_px(x_m, y_m) ==
    << Round(x_m, resolution_mppx) + origin_x_px,
       -Round(y_m, resolution_mppx) + origin_y_px >>

\* _px_to_m
_px_to_m(x_px, y_px) ==
    << (x_px - origin_x_px) * resolution_mppx,
       -(y_px - origin_y_px) * resolution_mppx >>

-----------------------------------------------------------------------------
(* The radial search of _closest_free_point_px *)

\* len(np.arange(0, 2 * math.pi, angle_increment_rad)); element k is k * increment
AngleCount(inc_deg) == CeilDiv(360, inc_deg)

RangeStopTooFar(max_px) == max_px + 3

\* the stop of range(1, self._max_distance_px + 1, ...)
RangeStop(max_px) == max_px + 1

CandidateClockwise(x_px, y_px, r_px, a_deg) ==
    << Round(x_px * TrigScale + r_px * Cos(a_deg), TrigScale),
       Round(y_px * TrigScale - r_px * Sin(a_deg), TrigScale) >>

\* (round(x_px + r_px * math.cos(a_rad)), round(y_px + r_px * math.sin(a_rad)))
Candidate(x_px, y_px, r_px, a_deg) ==
    << Round(x_px * TrigScale + r_px * Cos(a_deg), TrigScale),
       Round(y_px * TrigScale + r_px * Sin(a_deg), TrigScale) >>

\* The two nested loops, resumed at radius r_px and angle index k.
RECURSIVE Scan(_, _, _, _)
Scan(x_px, y_px, r_px, k) ==
    IF r_px >= RangeStop(max_distance_px)
    THEN NotFound
    ELSE IF k >= AngleCount(angle_increment_deg)
    THEN Scan(x_px, y_px, r_px + distance_increment_px, 0)
    ELSE LET c == Candidate(x_px, y_px, r_px, k * angle_increment_deg)
         IN  IF _is_free_px(c[1], c[2]) THEN c
             ELSE Scan(x_px, y_px, r_px, k + 1)

\* _closest_free_point_px
_closest_free_point_px(x_px, y_px) ==
    IF _is_free_px(x_px, y_px)
    THEN <<x_px, y_px>>
    ELSE Scan(x_px, y_px, 1, 0)

IsNonePairNegated(p) == p[1] # None /\ p[2] # None

\* xf_px is None and yf_px is None
IsNonePair(p) == p[1] = None /\ p[2] = None

\* closest_free_point, given what _closest_free_point_px returned
ClosestResult(p) == IF IsNonePair(p) THEN NotFound ELSE _px_to_m(p[1], p[2])

-----------------------------------------------------------------------------
(* Construction *)

YawIgnored(yaw) == TRUE

\* map_data['origin'][2] != 0 raises
YawSupported(yaw) == yaw = 0

\* 255 - image unless negate
Occupancy(image, negate) ==
    IF negate THEN image
    ELSE [i \in DOMAIN image |-> [j \in DOMAIN image[i] |-> 255 - image[i][j]]]

\* math.ceil(free_thresh * 255), free_thresh given in thousandths
FreeThreshPx(milli) == CeilDiv(milli * 255, 1000)

\* -int(origin_x / resolution)
OriginXPx(origin_x, res) == -TruncDiv(origin_x, res)

\* image.shape[0] + int(origin_y / resolution)
OriginYPx(height, origin_y, res) == height + TruncDiv(origin_y, res)

Construct ==
    /\ status = "new"
    /\ UNCHANGED <<args, query>>
    /\ IF ~YawSupported(args.origin[3])
       THEN /\ status' = "raised"
            /\ error' = "Exception: Non-zero origin yaw is not supported."
            /\ UNCHANGED engine
       ELSE /\ map_image' = Occupancy(args.image, args.negate)
            /\ free_thresh' = FreeThreshPx(args.free_thresh)
            /\ resolution_mppx' = args.resolution
            /\ origin_x_px' = OriginXPx(args.origin[1], args.resolution)
            /\ origin_y_px' = OriginYPx(Height(args.image), args.origin[2], args.resolution)
            /\ robot_radius_px' = CeilDiv(args.robot_radius_m, args.resolution)
            /\ robot_area_shape' = <<robot_radius_px' * 2, robot_radius_px' * 2>>
            /\ max_distance_px' = CeilDiv(args.max_distance_m, args.resolution)
            /\ IF args.distance_increment_m = None
               THEN /\ distance_increment_px' = 1
                    /\ angle_increment_deg' = args.angle_increment_deg
                    /\ status' = "ready"
                    /\ error' = "none"
               ELSE \* math.max does not exist: the attribute lookup raises
                    /\ UNCHANGED <<distance_increment_px, angle_increment_deg>>
                    /\ status' = "raised"
                    /\ error' = "AttributeError: module 'math' has no attribute 'max'"

-----------------------------------------------------------------------------
(* Queries.  They read the engine and change nothing of it; a behaviour      *)
(* follows an engine through one query.                                      *)

\* _is_free_px(x_px, y_px)
IsFreePx(x_px, y_px) ==
    /\ status = "ready"
    /\ op = "none"
    /\ op' = "_is_free_px"
    /\ q' = <<x_px, y_px>>
    /\ q_px' = <<x_px, y_px>>
    /\ ret_free' = _is_free_px(x_px, y_px)
    /\ UNCHANGED <<status, error, args, engine, found_px, ret_point>>

\* _closest_free_point_px(x_px, y_px)
ClosestFreePointPx(x_px, y_px) ==
    /\ status = "ready"
    /\ op = "none"
    /\ op' = "_closest_free_point_px"
    /\ q' = <<x_px, y_px>>
    /\ q_px' = <<x_px, y_px>>
    /\ found_px' = _closest_free_point_px(x_px, y_px)
    /\ ret_point' = found_px'
    /\ UNCHANGED <<status, error, args, engine, ret_free>>

\* is_free(x_m, y_m)
IsFree(x_m, y_m) ==
    /\ status = "ready"
    /\ op = "none"
    /\ op' = "is_free"
    /\ q' = <<x_m, y_m>>
    /\ q_px' = _m_to_px(x_m, y_m)
    /\ ret_free' = _is_free_px(q_px'[1], q_px'[2])
    /\ UNCHANGED <<status, error, args, engine, found_px, ret_point>>

\* closest_free_point(x_m, y_m)
ClosestFreePoint(x_m, y_m) ==
    /\ status = "ready"
    /\ op = "none"
    /\ op' = "closest_free_point"
    /\ q' = <<x_m, y_m>>
    /\ q_px' = _m_to_px(x_m, y_m)
    /\ found_px' = _closest_free_point_px(q_px'[1], q_px'[2])
    /\ ret_point' = ClosestResult(found_px')
    /\ UNCHANGED <<status, error, args, engine, ret_free>>

-----------------------------------------------------------------------------
(* Inputs *)

\* A w x h image that is `inside` on the side x side square whose top-left
\* cell is column x0, row y0 (0-based) and `outside` elsewhere.
SquareImage(w, h, x0, y0, side, inside, outside) ==
    [i \in 1 .. h |-> [j \in 1 .. w |->
        IF (i - 1) \in y0 .. (y0 + side - 1) /\ (j - 1) \in x0 .. (x0 + side - 1)
        THEN inside ELSE outside]]

\* <<x0, y0, side>> of the squares: none, the whole image, and every square of
\* the given sides that fits
Squares(w, h, sides) ==
    {<<0, 0, 0>>, <<0, 0, Max(w, h)>>} \cup
    {sq \in (0 .. w - 1) \X (0 .. h - 1) \X sides :
        sq[1] + sq[3] <= w /\ sq[2] + sq[3] <= h}

ImagesOf(sides, pairs) ==
    {SquareImage(ImgW, ImgH, sq[1], sq[2], sq[3], pp[1], pp[2]) :
        sq \in Squares(ImgW, ImgH, sides), pp \in pairs}

\* Arguments of the grid-level checks: unit resolution, origin at (0, 0, 0),
\* free_thresh 0.196 (threshold 50).
\* Raw pixel pairs <<inside, outside>>: 49 and 206 are free / occupied either
\* way round under negate; 50 is exactly the threshold when negate is set.
PxArgs ==
    [origin : {<<0, 0, 0>>}, resolution : {1}, negate : BOOLEAN,
     free_thresh : {196},
     image : ImagesOf({2}, {<<49, 206>>, <<50, 49>>}),
     robot_radius_m : 1 .. MaxRadiusM, max_distance_m : {1, MaxDistanceM},
     distance_increment_m : {None}, angle_increment_deg : {45, 90}]

\* Pixel queries: from far enough before the first row / column for a whole
\* footprint to lie before it, to one past the last.
PxCoordsX == (-(MaxRadiusM + 1)) .. ImgW

PxCoordsY == (-(MaxRadiusM + 1)) .. ImgH

\* Arguments of the checks through the public methods: origins that are and
\* are not whole pixels, yaw 0 and non-zero, distance_increment_m absent and given.
Args ==
    [origin : {-3, 0, 2} \X {-3, 0, 2} \X {0, 1}, resolution : {2, 3},
     negate : BOOLEAN, free_thresh : {196},
     image : ImagesOf({2}, {<<49, 206>>}),
     robot_radius_m : {MaxRadiusM}, max_distance_m : {2 * MaxDistanceM + 1},
     distance_increment_m : {None, 1, 5}, angle_increment_deg : {45, 90}]

WorldCoords == 0 .. MaxCoordM

NoEngine ==
    /\ map_image = <<>>
    /\ free_thresh = None
    /\ resolution_mppx = None
    /\ origin_x_px = None
    /\ origin_y_px = None
    /\ robot_radius_px = None
    /\ robot_area_shape = NotFound
    /\ max_distance_px = None
    /\ distance_increment_px = None
    /\ angle_increment_deg = None

NoQuery ==
    /\ op = "none"
    /\ q = NotFound
    /\ q_px = NotFound
    /\ found_px = NotFound
    /\ ret_free = FALSE
    /\ ret_point = NotFound

InitPx ==
    /\ status = "new"
    /\ error = "none"
    /\ args \in PxArgs
    /\ NoEngine
    /\ NoQuery

NextPx ==
    \/ Construct
    \/ \E x \in PxCoordsX, y \in PxCoordsY : IsFreePx(x, y)
    \/ \E x \in PxCoordsX, y \in PxCoordsY : ClosestFreePointPx(x, y)

SpecPx == InitPx /\ [][NextPx]_vars

Init ==
    /\ status = "new"
    /\ error = "none"
    /\ args \in Args
    /\ NoEngine
    /\ NoQuery

Next ==
    \/ Construct
    \/ \E x \in WorldCoords, y \in WorldCoords : IsFree(x, y)
    \/ \E x \in WorldCoords, y \in WorldCoords : ClosestFreePoint(x, y)

Spec == Init /\ [][Next]_vars

-----------------------------------------------------------------------------
(* Vocabulary of the properties *)

YawError == "Exception: Non-zero origin yaw is not supported."

\* The footprint [y - r, y + r) x [x - r, x + r) lies inside the buffer.
FootprintInside(r, p) ==
    /\ 0 <= p[1] - r /\ p[1] + r <= Width(map_image)
    /\ 0 <= p[2] - r /\ p[2] + r <= Height(map_image)

\* The cells of the footprint, as <<row, column>>, 0-based.
FootprintCells(r, p) == ((p[2] - r) .. (p[2] + r - 1)) \X ((p[1] - r) .. (p[1] + r - 1))

Free(p) == _is_free_px(p[1], p[2])

\* Squared Euclidean grid distance.
Dist2(p, o) == (p[1] - o[1]) * (p[1] - o[1]) + (p[2] - o[2]) * (p[2] - o[2])

\* The grid points within n pixels of o on each axis; they include every
\* point at Euclidean distance at most n from o.
Near(o, n) == ((o[1] - n) .. (o[1] + n)) \X ((o[2] - n) .. (o[2] + n))

\* The candidates in the order the search is said to examine them: <<i, k>> is
\* radius i * distance_increment_px and angle k * angle_increment.
SearchSteps ==
    {s \in (1 .. max_distance_px) \X (0 .. (360 \div angle_increment_deg)) :
        /\ s[1] * distance_increment_px <= max_distance_px
        /\ s[2] * angle_increment_deg < 360}

StepPoint(s) ==
    << Round(q_px[1] * TrigScale + s[1] * distance_increment_px * Cos(s[2] * angle_increment_deg),
             TrigScale),
       Round(q_px[2] * TrigScale + s[1] * distance_increment_px * Sin(s[2] * angle_increment_deg),
             TrigScale) >>

Before(s, t) == s[1] < t[1] \/ (s[1] = t[1] /\ s[2] < t[2])

FreeSteps == {s \in SearchSteps : Free(StepPoint(s))}

-----------------------------------------------------------------------------
(* Properties *)

\* C1: if the footprint of the queried grid point is not entirely inside the
\* occupancy buffer, _is_free_px returns False whatever the pixel values.
C1_OutsideIsNotFree ==
    (op = "_is_free_px" /\ ~FootprintInside(robot_radius_px, q_px)) => ~ret_free

\* C2: when the search returns a point, no grid point that satisfies the
\* free-space predicate is strictly closer to the query than the returned one.
\* (Stated for returned and competing points whose footprints lie inside the
\* buffer, so that it does not rest on footprints that leave the buffer.)
C2_ReturnsNearest ==
    (/\ op = "_closest_free_point_px"
     /\ found_px # NotFound
     /\ FootprintInside(robot_radius_px, found_px)) =>
        \A p \in Near(q_px, max_distance_px + distance_increment_px) :
            (FootprintInside(robot_radius_px, p) /\ Free(p))
                => Dist2(p, q_px) >= Dist2(found_px, q_px)

\* C3: for a grid point whose footprint lies inside the buffer, _is_free_px
\* returns True exactly when every cell of the footprint is strictly below
\* the free threshold.
C3_InsideFreeIffAllBelow ==
    (op = "_is_free_px" /\ FootprintInside(robot_radius_px, q_px)) =>
        (ret_free <=> \A c \in FootprintCells(robot_radius_px, q_px) :
                          map_image[c[1] + 1][c[2] + 1] < free_thresh)

\* C3 witness: a footprint inside the buffer is refused only because of cells
\* that are exactly at the threshold.
C3_Witness ==
    /\ op = "_is_free_px"
    /\ FootprintInside(robot_radius_px, q_px)
    /\ ~ret_free
    /\ \A c \in FootprintCells(robot_radius_px, q_px) :
           map_image[c[1] + 1][c[2] + 1] <= free_thresh

\* C4: when the queried point is not free the search returns the first
\* candidate, in radius-major and angle-ascending order, that is free, and
\* (None, None) when no candidate is free.
C4_FirstFreeCandidate ==
    (op = "_closest_free_point_px" /\ ~Free(q_px)) =>
        LET fs == FreeSteps
        IN  IF fs = {}
            THEN found_px = NotFound
            ELSE \E s \in fs :
                     /\ \A t \in fs : ~Before(t, s)
                     /\ found_px = StepPoint(s)

\* C4 witness: the search passed over occupied candidates of the first radius
\* and returned a candidate of the second radius at a non-zero angle.
C4_Witness ==
    /\ op = "_closest_free_point_px"
    /\ ~Free(q_px)
    /\ \E s \in FreeSteps :
           /\ \A t \in FreeSteps : ~Before(t, s)
           /\ s[1] >= 2 /\ s[2] >= 1
           /\ found_px = StepPoint(s)
           /\ FootprintInside(robot_radius_px, found_px)

\* C5 as stated: a returned point is at most max_distance_px plus one step
\* increment from the query, and the result is (None, None) when no free point
\* lies within max_distance_px of the query.  (The second half is stated for
\* returned points whose footprint lies inside the buffer, so that it does not
\* rest on footprints that leave the buffer.)
C5_BoundedStrict ==
    op = "_closest_free_point_px" =>
        /\ found_px # NotFound =>
               Dist2(found_px, q_px) <=
                   (max_distance_px + distance_increment_px)
                       * (max_distance_px + distance_increment_px)
        /\ (\A p \in Near(q_px, max_distance_px) :
               Free(p) => Dist2(p, q_px) > max_distance_px * max_distance_px)
               => (found_px = NotFound \/ ~FootprintInside(robot_radius_px, found_px))

\* C5 amended: a returned point is at most max_distance_px plus one step
\* increment from the query, and the result is (None, None) when no free point
\* lies within max_distance_px plus one step increment of the query.
C5_BoundedWithinStep ==
    op = "_closest_free_point_px" =>
        LET lim == (max_distance_px + distance_increment_px)
                       * (max_distance_px + distance_increment_px)
        IN  /\ found_px # NotFound => Dist2(found_px, q_px) <= lim
            /\ (\A p \in Near(q_px, max_distance_px + distance_increment_px) :
                   Free(p) => Dist2(p, q_px) > lim)
                   => found_px = NotFound

\* C5 witness: the search returned a point inside the buffer that is farther
\* than max_distance_px from the query.
C5_Witness ==
    /\ op = "_closest_free_point_px"
    /\ found_px # NotFound
    /\ FootprintInside(robot_radius_px, found_px)
    /\ Dist2(found_px, q_px) > max_distance_px * max_distance_px

\* C6: a search that finds nothing returns (None, None) without raising, and
\* closest_free_point returns (None, None) exactly when the grid search did,
\* otherwise the found grid point converted to world coordinates.
C6_NotFoundIsAValue ==
    op = "closest_free_point" =>
        /\ status = "ready" /\ error = "none"
        /\ (~Free(q_px) /\ FreeSteps = {}) => found_px = NotFound
        /\ ret_point = NotFound <=> found_px = NotFound
        /\ found_px # NotFound =>
               ret_point = << (found_px[1] - origin_x_px) * resolution_mppx,
                              -(found_px[2] - origin_y_px) * resolution_mppx >>

\* C6 witness: an occupied query point with no free candidate.
C6_Witness ==
    /\ op = "closest_free_point"
    /\ ~Free(q_px)
    /\ FreeSteps = {}
    /\ ret_point = NotFound

\* C7: construction with a non-zero origin yaw raises and leaves no buffer, no
\* derived parameter and no query; with yaw 0 it does not raise for this reason.
C7_YawRejected ==
    status # "new" =>
        IF args.origin[3] # 0
        THEN status = "raised" /\ error = YawError /\ NoEngine /\ NoQuery
        ELSE error # YawError

\* C7 witness: a construction with non-zero yaw was attempted.
C7_Witness == status = "raised" /\ args.origin[3] # 0

\* C8: construction (with a supported map) ends with distance_increment_px >= 1:
\* 1 when distance_increment_m is not given, else
\* max(1, floor(distance_increment_m / resolution)).
C8_DistanceIncrement ==
    (status # "new" /\ args.origin[3] = 0) =>
        /\ status = "ready"
        /\ distance_increment_px >= 1
        /\ distance_increment_px =
               IF args.distance_increment_m = None THEN 1
               ELSE Max(1, FloorDiv(args.distance_increment_m, args.resolution))

\* C9: if a point is free for the engine's robot radius, it is free for every
\* smaller radius (>= 1) on the same buffer, threshold and centre.
C9_FreeUnderShrink ==
    (op = "_is_free_px" /\ ret_free) =>
        \A r2 \in 1 .. (robot_radius_px - 1) :
            IsFreeArea(map_image, r2, <<r2 * 2, r2 * 2>>, free_thresh, q_px[1], q_px[2])

\* C9 witness: a point is free for a radius of at least 2.
C9_Witness == op = "_is_free_px" /\ ret_free /\ robot_radius_px >= 2

\* C10 as stated: the grid-space origin is the world origin rounded to the
\* nearest pixel: origin_x_px = -round(origin_x / resolution) and
\* origin_y_px = image_height + round(origin_y / resolution).
C10_OriginRounded ==
    status = "ready" =>
        /\ origin_x_px = -Round(args.origin[1], args.resolution)
        /\ origin_y_px = Height(args.image) + Round(args.origin[2], args.resolution)

\* t is n/d with its fraction dropped: t has the sign of n and |t| <= |n/d| < |t| + 1.
IsIntegerPart(t, n, d) ==
    /\ (n >= 0 => t >= 0 /\ t * d <= n /\ n < (t + 1) * d)
    /\ (n < 0 => t <= 0 /\ t * d >= n /\ n > (t - 1) * d)

\* C10 amended: the grid-space origin is the world origin truncated toward
\* zero to a whole pixel: origin_x_px = -int(origin_x / resolution) and
\* origin_y_px = image_height + int(origin_y / resolution).
C10_OriginTruncated ==
    status = "ready" =>
        /\ IsIntegerPart(-origin_x_px, args.origin[1], args.resolution)
        /\ IsIntegerPart(origin_y_px - Height(args.image), args.origin[2], args.resolution)

\* C10 witness: an engine whose origin is negative and not a whole number of
\* pixels on both axes.
C10_Witness ==
    /\ status = "ready"
    /\ args.origin[1] < 0 /\ args.origin[1] % args.resolution # 0
    /\ args.origin[2] < 0 /\ args.origin[2] % args.resolution # 0

====
